---- MODULE Spec2Model ----
(***************************************************************************)
(* CollectionCursor<Tape>: a collection paired with a head position, the   *)
(* seek arithmetic of src/src/lib.rs over the Vec / VecDeque adapters of   *)
(* src/src/tapelike_impls.rs.  usize and isize keep a width: bits.         *)
(***************************************************************************)
EXTENDS Integers, Sequences, FiniteSets, TLC

\* Width of usize / isize in bits (scaled down from the platform's 32/64).
UsizeBits == 2
\* Longest collection the model builds (never longer than usize::MAX).
MaxLen == 4
\* Width of usize / isize for the cursor over the tests' 10-item collection.
TestBits == 5
\* Failed steps counted in a run of seek_forward_one / seek_backward_one.
MaxFalse == 2
\* The item values stored in a collection.
Items == {1, 2}
\* The backing collections with an adapter in tapelike_impls.rs.
TapeKinds == {"Vec", "VecDeque"}

VARIABLES
    inner,   \* CollectionCursor::inner, the wrapped collection
    pos,     \* CollectionCursor::pos
    tape,    \* which adapter backs the cursor
    bits,    \* the target's pointer width: the width of usize and isize
    last,    \* the last call: its name, argument and return value, the
             \* position and collection before it, and whether it is a
             \* clamp that directly follows a clamp
    given,   \* the collection handed to new, or left by the latest call
             \* that writes the collection
    script,  \* how many calls of SeekScript the calls so far have followed
             \* since new(test_vec), -1 once they left it
    streak   \* the current run of seek_forward_one (or seek_backward_one)
             \* calls: where it started, its true and its false results

vars == <<inner, pos, tape, bits, last, given, script, streak>>

RECURSIVE Pow2(_)
Pow2(n) == IF n = 0 THEN 1 ELSE 2 * Pow2(n - 1)

USIZE_MOD == Pow2(bits)
USIZE_MAX == USIZE_MOD - 1
ISIZE_MIN == 0 - Pow2(bits - 1)
ISIZE_MAX == Pow2(bits - 1) - 1
Usize == 0..USIZE_MAX
Isize == ISIZE_MIN..ISIZE_MAX

Min(a, b) == IF a <= b THEN a ELSE b
LenCap == Min(MaxLen, Pow2(UsizeBits) - 1)
Tapes == UNION {[1..n -> Items] : n \in 0..LenCap}

----------------------------------------------------------------------------
\* Return values: Option<usize>, Option<Item>, bool, (), or a panic.
None == [tag |-> "None", v |-> 0]
Some(x) == [tag |-> "Some", v |-> x]
Unit == [tag |-> "Unit", v |-> 0]
Bool(b) == [tag |-> IF b THEN "True" ELSE "False", v |-> 0]
Panic == [tag |-> "Panic", v |-> 0]
is_some(o) == o.tag = "Some"

\* enum SeekFrom
Start(p) == [kind |-> "Start", p |-> p]
End(p) == [kind |-> "End", p |-> p]
Current(p) == [kind |-> "Current", p |-> p]
SeekFrom == {Start(p) : p \in Usize} \cup {End(p) : p \in Isize}
                \cup {Current(p) : p \in Isize}
NoArg == [kind |-> "NoArg", p |-> 0]
ItemArg(x) == [kind |-> "Item", p |-> x]
OffsetArg(k) == [kind |-> "Offset", p |-> k]

----------------------------------------------------------------------------
\* usize::checked_add_signed, as core computes it: cast the offset to usize,
\* add with wrap-around, and report overflow as carry XOR (offset < 0).
as_usize(i) == i % USIZE_MOD
overflowing_add(a, b) ==
    [res |-> (a + b) % USIZE_MOD, overflowed |-> (a + b) > USIZE_MAX]
overflowing_add_signed(u, i) ==
    LET r == overflowing_add(u, as_usize(i))
    IN  [res |-> r.res, overflowed |-> (r.overflowed # (i < 0))]
wrapping_add_signed(u, i) == Some(overflowing_add_signed(u, i).res)
checked_add_signed(u, i) ==
    LET r == overflowing_add_signed(u, i)
    IN  IF r.overflowed THEN None ELSE Some(r.res)

\* usize::checked_sub(1).unwrap_or_default()
checked_sub_one_or_default(n) == IF n >= 1 THEN n - 1 ELSE 0

----------------------------------------------------------------------------
\* The adapters: impl TapeLike / TapeLikeMut for Vec<T> and VecDeque<T>.
\* Indices are 0-based as in the source; sequences are 1-based.
RemoveAt_swap(c, i) ==
    [j \in 1..(Len(c) - 1) |-> IF j = i + 1 THEN c[Len(c)] ELSE c[j]]
RemoveAt(c, i) == [j \in 1..(Len(c) - 1) |-> IF j <= i THEN c[j] ELSE c[j + 1]]
InsertAt_overwrite(c, i, x) ==
    IF i < Len(c) THEN [c EXCEPT ![i + 1] = x] ELSE Append(c, x)
InsertAt(c, i, x) ==
    [j \in 1..(Len(c) + 1) |->
        IF j <= i THEN c[j] ELSE IF j = i + 1 THEN x ELSE c[j - 1]]

len(t, c) == Len(c)
get_item_from_back(t, c, index) ==
    IF index < Len(c) THEN Some(c[Len(c) - index]) ELSE None
get_item(t, c, index) == IF index < Len(c) THEN Some(c[index + 1]) ELSE None
get_item_mut(t, c, index) == IF index < Len(c) THEN Some(c[index + 1]) ELSE None
\* Vec::insert / VecDeque::insert panic when index > len.
set_item_no_panic(t, c, index, item) ==
    IF index > Len(c)
    THEN [inner |-> Append(c, item), ret |-> Unit]
    ELSE [inner |-> InsertAt(c, index, item), ret |-> Unit]
set_item(t, c, index, item) ==
    IF index > Len(c)
    THEN [inner |-> c, ret |-> Panic]
    ELSE [inner |-> InsertAt(c, index, item), ret |-> Unit]
remove_item(t, c, index) ==
    IF t = "Vec"
    THEN IF index < Len(c)
         THEN [inner |-> RemoveAt(c, index), ret |-> Some(c[index + 1])]
         ELSE [inner |-> c, ret |-> None]
    ELSE IF index < Len(c)
         THEN [inner |-> RemoveAt(c, index), ret |-> Some(c[index + 1])]
         ELSE [inner |-> c, ret |-> None]
clear_tape(t, c) == <<>>

----------------------------------------------------------------------------
\* The cursor's methods, as functions of (adapter, collection, position, input)
\* to the collection, position and return value after the call.
Post(c, p, r) == [inner |-> c, pos |-> p, ret |-> r]

new(c) == Post(c, 0, Unit)

\* The match of seek: the position the directive asks for.
desired_position_swapped(t, c, p, d) ==
    CASE d.kind = "Start" -> Some(d.p)
      [] d.kind = "End" -> checked_add_signed(p, d.p)
      [] d.kind = "Current" -> checked_add_signed(len(t, c), d.p)
desired_position(t, c, p, d) ==
    CASE d.kind = "Start" -> Some(d.p)
      [] d.kind = "End" -> checked_add_signed(len(t, c), d.p)
      [] d.kind = "Current" -> checked_add_signed(p, d.p)

\* The filter of seek: |&pos| pos <= collection_len.
in_bounds_strict(new_pos, collection_len) == new_pos < collection_len
in_bounds_off_by_one(new_pos, collection_len) == new_pos <= collection_len + 1
in_bounds(new_pos, collection_len) == new_pos <= collection_len

seek_commit_before_filter(t, c, p, d) ==
    LET collection_len == len(t, c)
        desired == desired_position(t, c, p, d)
        kept == IF is_some(desired) /\ in_bounds(desired.v, collection_len)
                THEN desired ELSE None
    IN  Post(c, IF is_some(desired) THEN desired.v ELSE p, kept)
seek(t, c, p, d) ==
    LET collection_len == len(t, c)
        desired == desired_position(t, c, p, d)
        kept == IF is_some(desired) /\ in_bounds(desired.v, collection_len)
                THEN desired ELSE None
    IN  Post(c, IF is_some(kept) THEN kept.v ELSE p, kept)

clamp_max(t, c, p) ==
    Post(c, IF p >= len(t, c) THEN p ELSE len(t, c), Unit)
clamp_step_back(t, c, p) ==
    Post(c, IF p > len(t, c) THEN p - 1 ELSE p, Unit)
clamp_to_collection_bounds(t, c, p) == Post(c, Min(p, len(t, c)), Unit)

seek_to_start(t, c, p) == Post(c, 0, Unit)

seek_relative(t, c, p, offset) == seek(t, c, p, Current(offset))

seek_backward_one(t, c, p) ==
    LET r == seek_relative(t, c, p, -1) IN Post(r.inner, r.pos, Bool(is_some(r.ret)))

seek_forward_one_wrong_sign(t, c, p) ==
    LET r == seek_relative(t, c, p, -1) IN Post(r.inner, r.pos, Bool(is_some(r.ret)))
seek_forward_one(t, c, p) ==
    LET r == seek_relative(t, c, p, 1) IN Post(r.inner, r.pos, Bool(is_some(r.ret)))

seek_to_last_item_wrapping(t, c, p) ==
    Post(c, (len(t, c) - 1) % USIZE_MOD, Unit)
seek_to_last_item(t, c, p) == Post(c, checked_sub_one_or_default(len(t, c)), Unit)

seek_to_end(t, c, p) == Post(c, len(t, c), Unit)

get_item_at_head(t, c, p) == Post(c, p, get_item(t, c, p))

clear_keep_pos(t, c, p) == Post(clear_tape(t, c), p, Unit)
clear(t, c, p) == Post(clear_tape(t, c), 0, Unit)

\* get_item_at_head_mut hands out &mut Item when there is an item at the
\* head: with w = ItemArg(x) the caller writes x through it, with w = NoArg
\* the caller only reads.
get_item_at_head_mut(t, c, p, w) ==
    LET r == get_item_mut(t, c, p)
    IN  Post(IF is_some(r) /\ w.kind = "Item" THEN [c EXCEPT ![p + 1] = w.p]
             ELSE c,
             p, r)

set_item_at_head(t, c, p, item) ==
    LET r == set_item(t, c, p, item) IN Post(r.inner, p, r.ret)

remove_item_at_head_step_back(t, c, p) ==
    LET r == remove_item(t, c, p)
    IN  Post(r.inner, IF is_some(r.ret) /\ p > 0 THEN p - 1 ELSE p, r.ret)
remove_item_at_head(t, c, p) ==
    LET r == remove_item(t, c, p) IN Post(r.inner, p, r.ret)

\* get_mut hands out &mut Tape: the caller leaves the collection c2 behind.
get_mut(t, c, p, c2) == Post(c2, p, Unit)

\* into_inner moves the collection out of the cursor: inner is what it returns.
into_inner_default(t, c, p) == Post(<<>>, p, Unit)
into_inner(t, c, p) == Post(c, p, Unit)

\* collection_cursor_tests::test_vec
test_vec == <<0, 1, 2, 3, 4, 5, 9, 8, 7, 6>>

----------------------------------------------------------------------------
NoStreak == [from |-> 0, trues |-> 0, falses |-> 0]

Init ==
    /\ bits = UsizeBits
    /\ \E c \in Tapes, t \in TapeKinds :
        /\ inner = new(c).inner
        /\ pos = new(c).pos
        /\ tape = t
        /\ last = [op |-> "new", arg |-> NoArg, ret |-> new(c).ret,
                   pos |-> 0, inner |-> c, reclamp |-> FALSE]
        /\ given = c
    /\ script = -1
    /\ streak = NoStreak

\* collection_cursor_tests::test_collection: a cursor over test_vec.
InitTestVec ==
    /\ bits = TestBits
    /\ inner = new(test_vec).inner
    /\ pos = new(test_vec).pos
    /\ tape = "Vec"
    /\ last = [op |-> "new", arg |-> NoArg, ret |-> new(test_vec).ret,
               pos |-> 0, inner |-> test_vec, reclamp |-> FALSE]
    /\ given = test_vec
    /\ script = 0
    /\ streak = NoStreak

\* into_inner takes the cursor by value: no call can follow it.
Consumed == last.op = "into_inner"
\* A panic unwinds to a caller that may catch it: it still owns the cursor,
\* unchanged, and can go on calling it.
Usable == ~Consumed

\* The calls that write the collection.
WriterOps ==
    {"clear", "get_item_at_head_mut", "set_item_at_head",
     "remove_item_at_head", "get_mut"}
StepOps == {"seek_forward_one", "seek_backward_one"}
\* The calls of the concrete scenario, in order.
SeekScript ==
    <<Start(3), Current(7), Current(1), End(0 - 10), End(0 - 11)>>

NextStreak(name, r) ==
    IF name \in StepOps
    THEN LET cont == last.op = name
             from == IF cont THEN streak.from ELSE pos
             trues == IF cont THEN streak.trues ELSE 0
             falses == IF cont THEN streak.falses ELSE 0
         IN  [from |-> from,
              trues |-> trues + (IF r.ret = Bool(TRUE) THEN 1 ELSE 0),
              falses |-> Min(MaxFalse,
                             falses + (IF r.ret = Bool(FALSE) THEN 1 ELSE 0))]
    ELSE NoStreak

Call(name, arg, r) ==
    /\ inner' = r.inner
    /\ pos' = r.pos
    /\ tape' = tape
    /\ bits' = bits
    /\ last' = [op |-> name, arg |-> arg, ret |-> r.ret,
                pos |-> pos, inner |-> inner,
                reclamp |-> (name = "clamp_to_collection_bounds"
                                /\ last.op = name)]
    /\ given' = IF name \in WriterOps THEN r.inner ELSE given
    /\ script' = IF /\ script >= 0
                    /\ script < Len(SeekScript)
                    /\ name = "seek"
                    /\ arg = SeekScript[script + 1]
                 THEN script + 1
                 ELSE -1
    /\ streak' = NextStreak(name, r)

Seek ==
    /\ Usable
    /\ \E d \in SeekFrom : Call("seek", d, seek(tape, inner, pos, d))
ClampToCollectionBounds ==
    /\ Usable
    /\ Call("clamp_to_collection_bounds", NoArg,
            clamp_to_collection_bounds(tape, inner, pos))
SeekToStart ==
    /\ Usable
    /\ Call("seek_to_start", NoArg, seek_to_start(tape, inner, pos))
SeekBackwardOne ==
    /\ Usable
    /\ Call("seek_backward_one", NoArg, seek_backward_one(tape, inner, pos))
SeekRelative ==
    /\ Usable
    /\ \E k \in Isize :
           Call("seek_relative", OffsetArg(k),
                seek_relative(tape, inner, pos, k))
SeekForwardOne ==
    /\ Usable
    /\ Call("seek_forward_one", NoArg, seek_forward_one(tape, inner, pos))
SeekToLastItem ==
    /\ Usable
    /\ Call("seek_to_last_item", NoArg, seek_to_last_item(tape, inner, pos))
SeekToEnd ==
    /\ Usable
    /\ Call("seek_to_end", NoArg, seek_to_end(tape, inner, pos))
GetItemAtHead ==
    /\ Usable
    /\ Call("get_item_at_head", NoArg, get_item_at_head(tape, inner, pos))
Clear ==
    /\ Usable
    /\ Call("clear", NoArg, clear(tape, inner, pos))
GetItemAtHeadMut ==
    /\ Usable
    /\ \E w \in {NoArg} \cup {ItemArg(x) : x \in Items} :
           Call("get_item_at_head_mut", w,
                get_item_at_head_mut(tape, inner, pos, w))
\* The model stops growing a collection at LenCap items.
SetItemAtHead ==
    /\ Usable
    /\ Len(inner) < LenCap \/ pos > Len(inner)
    /\ \E x \in Items :
           Call("set_item_at_head", ItemArg(x),
                set_item_at_head(tape, inner, pos, x))
RemoveItemAtHead ==
    /\ Usable
    /\ Call("remove_item_at_head", NoArg,
            remove_item_at_head(tape, inner, pos))
\* The caller's use of the &mut Tape: any edit, or none, leaving any collection
\* within the model's length.
GetMut ==
    /\ Usable
    /\ \E c2 \in Tapes :
           Call("get_mut", NoArg, get_mut(tape, inner, pos, c2))

IntoInner ==
    /\ Usable
    /\ Call("into_inner", NoArg, into_inner(tape, inner, pos))

\* The operations that only move the head.
SeekOps ==
    \/ Seek
    \/ ClampToCollectionBounds
    \/ SeekToStart
    \/ SeekBackwardOne
    \/ SeekRelative
    \/ SeekForwardOne
    \/ SeekToLastItem
    \/ SeekToEnd

\* The operations that go through the cursor's own methods only.
NextCore ==
    \/ SeekOps
    \/ GetItemAtHead
    \/ Clear
    \/ GetItemAtHeadMut
    \/ SetItemAtHead
    \/ RemoveItemAtHead

NextSeek == SeekOps \/ IntoInner

Next == NextCore \/ GetMut \/ IntoInner

\* Every public operation, the get_mut escape hatch included.
Spec == Init /\ [][Next]_vars
\* No use of get_mut.
SpecCore == Init /\ [][NextCore]_vars
\* new(c), seeks and clamps, then into_inner.
SpecSeek == Init /\ [][NextSeek]_vars
\* The same over the tests' cursor, with a usize wide enough for its indices.
SpecTestVec == InitTestVec /\ [][NextSeek]_vars

TypeOK ==
    /\ inner \in Tapes \/ given = test_vec
    /\ pos \in Usize
    /\ tape \in TapeKinds
    /\ bits \in {UsizeBits, TestBits}

----------------------------------------------------------------------------
\* Properties.  PrePos and PreLen are the position and the collection's
\* length when the last call was made.
PrePos == last.pos
PreLen == Len(last.inner)
IsSeek(kind) == last.op = "seek" /\ last.arg.kind = kind
IsCurrentSeek == IsSeek("Current") \/ last.op = "seek_relative"

\* C1: without get_mut, 0 <= position() <= get_ref().len() in every state
\* reached from new(c) by the cursor's own operations.
C1_BoundsInvariant == 0 <= pos /\ pos <= Len(inner)
\* The head was on the last item and that item was removed.
C1_Witness ==
    /\ last.op = "remove_item_at_head"
    /\ is_some(last.ret)
    /\ PrePos > 0
    /\ pos = Len(inner)

\* C2: seek(Start(p)) returns Some(p) and moves to p when p <= N; returns
\* None and leaves the position when p > N.
C2_SeekStart ==
    IsSeek("Start") =>
        IF last.arg.p <= PreLen
        THEN last.ret = Some(last.arg.p) /\ pos = last.arg.p
        ELSE last.ret = None /\ pos = PrePos
C2_Witness ==
    /\ IsSeek("Start")
    /\ last.arg.p = PreLen + 1
    /\ PrePos > 0
    /\ last.ret = None
    /\ pos = PrePos

\* C3: seek(Current(k)) and seek_relative(k) from position p return Some(p+k)
\* and move to p+k iff 0 <= p+k <= N; otherwise None, position still p.
C3_SeekCurrent ==
    IsCurrentSeek =>
        LET target == PrePos + last.arg.p
        IN  IF 0 <= target /\ target <= PreLen
            THEN last.ret = Some(target) /\ pos = target
            ELSE last.ret = None /\ pos = PrePos
C3_Witness ==
    /\ last.op = "seek_relative"
    /\ last.arg.p < 0
    /\ PrePos + last.arg.p = 1
    /\ last.ret = Some(1)
    /\ pos = 1

\* C4: seek(End(0)) moves to N; seek(End(-k)), 0 <= k <= N, moves to N-k;
\* a positive offset or one below -N returns None.
C4_SeekEnd ==
    IsSeek("End") =>
        LET k == last.arg.p
        IN  /\ (0 - PreLen <= k /\ k <= 0) =>
                  last.ret = Some(PreLen + k) /\ pos = PreLen + k
            /\ (k > 0 \/ k < 0 - PreLen) => last.ret = None
C4_Witness ==
    /\ IsSeek("End")
    /\ last.arg.p = 0 - PreLen
    /\ PreLen > 1
    /\ PrePos > 0
    /\ last.ret = Some(0)
    /\ pos = 0

\* C5: a seek that returns None leaves the position and the collection as
\* they were.
C5_SeekFailureAtomic ==
    (last.op = "seek" /\ last.ret = None) =>
        pos = PrePos /\ inner = last.inner
\* A failing seek whose requested position was computed but is out of range.
C5_Witness ==
    /\ IsSeek("Current")
    /\ last.ret = None
    /\ PrePos + last.arg.p > PreLen
    /\ PrePos + last.arg.p <= USIZE_MAX
    /\ PrePos > 0
    /\ pos = PrePos
    /\ inner = last.inner

\* C6, as claimed: in every state, also with the position above the length,
\* seek(Current(0)) returns Some(position) and leaves the position.
C6_Original ==
    (IsSeek("Current") /\ last.arg.p = 0) =>
        last.ret = Some(PrePos) /\ pos = PrePos
\* C6, amended: seek(Current(0)) never moves the head; it returns
\* Some(position) when position <= length and None when position > length.
C6_CurrentZero ==
    (IsSeek("Current") /\ last.arg.p = 0) =>
        /\ pos = PrePos
        /\ PrePos <= PreLen => last.ret = Some(PrePos)
        /\ PrePos > PreLen => last.ret = None
C6_Witness ==
    /\ IsSeek("Current")
    /\ last.arg.p = 0
    /\ PrePos > PreLen
    /\ last.ret = None
    /\ pos = PrePos

\* C7: clamp_to_collection_bounds cannot fail, leaves the collection alone,
\* keeps a position that is within bounds and moves one above the length
\* down to the length; afterwards position <= length.
C7_Clamp ==
    last.op = "clamp_to_collection_bounds" =>
        /\ last.ret = Unit
        /\ inner = last.inner
        /\ PrePos <= PreLen => pos = PrePos
        /\ PrePos > PreLen => pos = PreLen
        /\ 0 <= pos /\ pos <= Len(inner)
C7_Witness ==
    /\ last.op = "clamp_to_collection_bounds"
    /\ PrePos > PreLen
    /\ PreLen > 0
    /\ pos = PreLen

\* C8: a clamp_to_collection_bounds that directly follows another one changes
\* neither the position nor the collection.
C8_ClampIdempotent ==
    (last.op = "clamp_to_collection_bounds" /\ last.reclamp) =>
        pos = PrePos /\ inner = last.inner
C8_Witness ==
    /\ last.op = "clamp_to_collection_bounds"
    /\ last.reclamp
    /\ pos = Len(inner)
    /\ pos > 0

\* C9: after clear() the collection is empty and the position is 0, whatever
\* they were before.
C9_Clear ==
    last.op = "clear" => inner = <<>> /\ Len(inner) = 0 /\ pos = 0
C9_Witness ==
    /\ last.op = "clear"
    /\ PreLen > 0
    /\ PrePos > PreLen
    /\ inner = <<>>
    /\ pos = 0

\* C10: when length+k (End) or position+k (Current) is negative or above
\* usize::MAX, the seek returns None, does not panic and leaves the position;
\* the sum is not wrapped into an accepted position.
C10_OverflowSafe ==
    (IsSeek("End") \/ IsCurrentSeek) =>
        LET base == IF IsSeek("End") THEN PreLen ELSE PrePos
            sum == base + last.arg.p
        IN  (sum < 0 \/ sum > USIZE_MAX) =>
                last.ret = None /\ pos = PrePos
\* The sum overflows and its wrapped value would have been within bounds.
C10_Witness ==
    /\ IsSeek("End")
    /\ PreLen + last.arg.p > USIZE_MAX
    /\ (PreLen + last.arg.p) % USIZE_MOD <= PreLen
    /\ PrePos > 0
    /\ last.ret = None
    /\ pos = PrePos

----------------------------------------------------------------------------
HeadOps ==
    {"get_item_at_head", "get_item_at_head_mut", "set_item_at_head",
     "remove_item_at_head"}
\* The state is the one the call r leaves.
Same(r) == pos = r.pos /\ inner = r.inner

\* C11: after new(c) and any seeks and clamps the collection is still c, and
\* it is c that into_inner returns; seek_to_end then seek_to_start ends at 0.
C11_SeekKeepsCollection ==
    /\ inner = given
    /\ Len(inner) = Len(given)
    /\ (last.op = "seek_to_start" /\ PrePos = PreLen) => pos = 0
\* into_inner after the head was moved over a collection of several items.
C11_Witness ==
    /\ last.op = "into_inner"
    /\ PrePos = PreLen
    /\ Len(given) > 1
    /\ inner = given

\* C12, as claimed: with position >= length on a Vec, the head operations
\* return absence, set_item_at_head does nothing, and none of them panics or
\* changes the collection.
C12_Original ==
    (tape = "Vec" /\ last.op \in HeadOps /\ PrePos >= PreLen) =>
        /\ inner = last.inner
        /\ last.ret = IF last.op = "set_item_at_head" THEN Unit ELSE None
\* C12, amended: with position >= length on a Vec, get_item_at_head,
\* get_item_at_head_mut and remove_item_at_head return None and leave the
\* collection; set_item_at_head appends the item when position = length and
\* panics, the collection unchanged, when position > length.
C12_HeadOutOfRange ==
    (tape = "Vec" /\ last.op \in HeadOps /\ PrePos >= PreLen) =>
        IF last.op # "set_item_at_head"
        THEN last.ret = None /\ inner = last.inner
        ELSE IF PrePos = PreLen
             THEN last.ret = Unit /\ inner = Append(last.inner, last.arg.p)
             ELSE last.ret = Panic /\ inner = last.inner
C12_Witness ==
    /\ tape = "Vec"
    /\ last.op = "set_item_at_head"
    /\ PrePos > PreLen
    /\ last.ret = Panic
    /\ inner = last.inner

\* C13: on a new cursor over [0,1,2,3,4,5,9,8,7,6] the seeks Start(3),
\* Current(7), Current(1), End(-10), End(-11) return Some(3), Some(10), None,
\* Some(0), None and leave the position at 3, 10, 10, 0, 0.
C13_Expected ==
    <<[ret |-> Some(3), pos |-> 3], [ret |-> Some(10), pos |-> 10],
      [ret |-> None, pos |-> 10], [ret |-> Some(0), pos |-> 0],
      [ret |-> None, pos |-> 0]>>
C13_ConcreteTrace ==
    script \in 1..Len(C13_Expected) =>
        /\ last.ret = C13_Expected[script].ret
        /\ pos = C13_Expected[script].pos
C13_Witness ==
    /\ script = 5
    /\ Len(inner) = 10
    /\ last.arg = End(0 - 11)
    /\ last.ret = None
    /\ pos = 0

\* C14: from every state seek_to_start leaves the state of seek(Start(0)),
\* seek_to_end that of seek(End(0)), seek_to_last_item that of
\* seek(Start(length-1)), or seek(Start(0)) on an empty collection, and
\* seek_forward_one / seek_backward_one that of seek(Current(1)) /
\* seek(Current(-1)), returning true exactly when that seek returns Some.
C14_ConvenienceSeeks ==
    LET general(d) == seek(tape, last.inner, PrePos, d)
    IN  /\ last.op = "seek_to_start" => Same(general(Start(0)))
        /\ last.op = "seek_to_end" => Same(general(End(0)))
        /\ last.op = "seek_to_last_item" =>
              Same(general(Start(IF PreLen > 0 THEN PreLen - 1 ELSE 0)))
        /\ last.op = "seek_forward_one" =>
              /\ Same(general(Current(1)))
              /\ last.ret = Bool(is_some(general(Current(1)).ret))
        /\ last.op = "seek_backward_one" =>
              /\ Same(general(Current(-1)))
              /\ last.ret = Bool(is_some(general(Current(-1)).ret))
\* seek_to_last_item on an emptied collection with the head left above it.
C14_Witness ==
    /\ last.op = "seek_to_last_item"
    /\ PreLen = 0
    /\ PrePos > 0
    /\ pos = 0

\* C15: get_item_at_head, get_item_at_head_mut, set_item_at_head and
\* remove_item_at_head leave position() as it was.
C15_HeadOpsKeepPosition == last.op \in HeadOps => pos = PrePos
\* An item was removed under a head that was not at 0.
C15_Witness ==
    /\ last.op = "remove_item_at_head"
    /\ is_some(last.ret)
    /\ Len(inner) = PreLen - 1
    /\ PrePos > 0
    /\ pos = PrePos

\* C16: get_item_at_head returns the item at index position() when
\* position < length and None exactly when position >= length; it would
\* return None right after seek_to_end and the last item right after
\* seek_to_last_item on a non-empty collection.
C16_GetItemAtHead ==
    /\ last.op = "get_item_at_head" =>
          /\ PrePos < PreLen => last.ret = Some(last.inner[PrePos + 1])
          /\ last.ret = None <=> PrePos >= PreLen
    /\ last.op = "seek_to_end" =>
          get_item_at_head(tape, inner, pos).ret = None
    /\ (last.op = "seek_to_last_item" /\ Len(inner) > 0) =>
          get_item_at_head(tape, inner, pos).ret = Some(inner[Len(inner)])
C16_Witness ==
    /\ last.op = "get_item_at_head"
    /\ PreLen > 1
    /\ PrePos = PreLen - 1
    /\ last.inner[1] # last.inner[PreLen]
    /\ last.ret = Some(last.inner[PreLen])

\* C17: on a Vec, remove_item_at_head at p < N returns the item at p, the
\* length becomes N-1, items after p move down by one, items before p stay,
\* the position stays p; at p >= N it returns None and changes nothing.
C17_RemoveItemAtHead ==
    (tape = "Vec" /\ last.op = "remove_item_at_head") =>
        LET c == last.inner
            p == PrePos
            N == PreLen
        IN  IF p < N
            THEN /\ last.ret = Some(c[p + 1])
                 /\ Len(inner) = N - 1
                 /\ \A i \in 0..(N - 1) :
                       /\ i < p => inner[i + 1] = c[i + 1]
                       /\ i > p => inner[i] = c[i + 1]
                 /\ pos = p
            ELSE last.ret = None /\ inner = c /\ pos = p
\* A removal in the middle, with a different item after the head.
C17_Witness ==
    /\ tape = "Vec"
    /\ last.op = "remove_item_at_head"
    /\ PrePos > 0
    /\ PrePos + 1 < PreLen
    /\ last.inner[PrePos + 1] # last.inner[PrePos + 2]
    /\ last.ret = Some(last.inner[PrePos + 1])
    /\ Len(inner) = PreLen - 1
    /\ inner[PrePos + 1] = last.inner[PrePos + 2]

\* C18: on a Vec or VecDeque, set_item_at_head(x) at p <= N makes the length
\* N+1, puts x at index p, moves the items from p on up by one, keeps the
\* items before p and the position, and get_item_at_head then returns x.
C18_SetItemAtHead ==
    (last.op = "set_item_at_head" /\ PrePos <= PreLen) =>
        LET c == last.inner
            p == PrePos
            N == PreLen
            x == last.arg.p
        IN  /\ last.ret = Unit
            /\ Len(inner) = N + 1
            /\ inner[p + 1] = x
            /\ \A i \in 0..(N - 1) :
                  /\ i < p => inner[i + 1] = c[i + 1]
                  /\ i >= p => inner[i + 2] = c[i + 1]
            /\ pos = p
            /\ get_item_at_head(tape, inner, pos).ret = Some(x)
\* An insertion in the middle of a VecDeque, over a different item.
C18_Witness ==
    /\ tape = "VecDeque"
    /\ last.op = "set_item_at_head"
    /\ PrePos > 0
    /\ PrePos < PreLen
    /\ last.inner[PrePos + 1] # last.arg.p
    /\ Len(inner) = PreLen + 1
    /\ inner[PrePos + 1] = last.arg.p

\* C19: a seek that returns Some(n), from any state, leaves the position at n
\* with n <= the current length; after seek_to_start, seek_to_end,
\* seek_to_last_item and clear the position is within 0..length.
C19_MovesRestoreBounds ==
    /\ (last.op \in {"seek", "seek_relative"} /\ is_some(last.ret)) =>
          pos = last.ret.v /\ last.ret.v <= Len(inner)
    /\ last.op \in {"seek_to_start", "seek_to_end", "seek_to_last_item",
                    "clear"} =>
          0 <= pos /\ pos <= Len(inner)
\* A successful seek from a position above the length.
C19_Witness ==
    /\ IsSeek("Current")
    /\ PrePos > PreLen
    /\ PreLen > 0
    /\ is_some(last.ret)
    /\ pos = PreLen

\* C20: in a run of seek_forward_one calls started at p <= N every true
\* result moves the head up by one, there are at most N-p of them, none
\* follows a false one, and a false one finds and leaves the head at N after
\* exactly N-p true ones; a run of seek_backward_one calls likewise has p
\* true results and then false ones with the head at 0.
C20_SteppingStops ==
    LET N == Len(inner)
        p == streak.from
    IN  /\ (last.op = "seek_forward_one" /\ p <= N) =>
              /\ pos = p + streak.trues
              /\ streak.trues <= N - p
              /\ last.ret = Bool(TRUE) => pos = PrePos + 1 /\ streak.falses = 0
              /\ last.ret = Bool(FALSE) =>
                    pos = N /\ PrePos = N /\ streak.trues = N - p
        /\ (last.op = "seek_backward_one" /\ p <= N) =>
              /\ pos = p - streak.trues
              /\ streak.trues <= p
              /\ last.ret = Bool(TRUE) => pos = PrePos - 1 /\ streak.falses = 0
              /\ last.ret = Bool(FALSE) =>
                    pos = 0 /\ PrePos = 0 /\ streak.trues = p
\* A run that walked to the end and kept failing there.
C20_Witness ==
    /\ last.op = "seek_forward_one"
    /\ streak.from > 0
    /\ streak.trues > 1
    /\ streak.falses = MaxFalse
    /\ pos = Len(inner)
====
